---- MODULE Spec2Model ----
(***************************************************************************)
(* ImpulseControlApp (src/main.py): a curses habit counter.  The model is  *)
(* the application object's fields, the persisted JSON file, a clock, and  *)
(* one action per input handler of the run loop.  One step of a handler    *)
(* action is one iteration of run(): the status-expiry check at the top of *)
(* the loop, then the handler of the current state with the key(s) it      *)
(* reads.  Drawing changes no field and is not modelled; terminal geometry *)
(* and signals are outside the modelled inputs.  Under Spec every save     *)
(* succeeds; under SpecIO a save may raise.                                *)
(***************************************************************************)
EXTENDS Integers, Sequences, FiniteSets, TLC

\* Bounds of the model (not program constants).
MaxKeys == 2      \* keystrokes typed into the textbox before Enter
MaxGoals == 2     \* goals held by the registry
MaxCount == 2     \* value a counter may reach
MaxTime == 1      \* clock ticks
MaxListGoals == 3 \* goals held by the registry under SpecList
MaxClock == 5     \* clock ticks under SpecClock, long enough for a status to expire

\* run(): `time.time() - self.status_time > 3`
StatusDuration == 3

VARIABLES
    goals,           \* self.goals: insertion-ordered dict, as a sequence of records
    current_goal,    \* self.current_goal
    current_state,   \* self.current_state
    selected_index,  \* self.selected_index
    goal_to_delete,  \* self.goal_to_delete
    status_message,  \* self.status_message
    status_time,     \* self.status_time
    is_error,        \* self.is_error
    file,            \* content of CONFIG_PATH
    now,             \* time.time() / datetime.now(), in whole time units
    pc,              \* "running" inside run(), "terminated" once an exception left it
    exc,             \* the exception that ended the process, "none" while running
    ev,              \* observation: the handler that ran last, its input, its branch
    seq,             \* observation: the current increments-then-undos run in view_goal
    applied          \* observation: per goal created here, increments not yet undone

vars == <<goals, current_goal, current_state, selected_index, goal_to_delete,
          status_message, status_time, is_error, file, now, pc, exc, ev, seq, applied>>

\* Python's None for a goal name (names are non-empty) and for the status message.
NoGoal == <<>>
NoStatus == ""

----------------------------------------------------------------------------
\* Keys and text

\* stdscr.getch() in each polling state: -1 on timeout ("NONE"), upper and lower
\* case handled alike, "x" any key the handler does not name.
MenuKeys == {"NONE", "UP", "DOWN", "ENTER", "c", "d", "q", "?", "x"}

GoalKeys == {"NONE", "i", "u", "m", "q", "?", "x"}

ConfirmKeys == {"NONE", "y", "n", "q", "x"}

\* Keys read by Textbox.edit() before the terminating Enter.
TextKeys == {"a", " ", "ESC"}

\* curses.ascii.isprint
isprint(k) == k \in {"a", "b", "q", " "}

RECURSIVE SeqsUpTo(_, _)
SeqsUpTo(S, n) ==
    IF n = 0 THEN {<<>>}
    ELSE LET shorter == SeqsUpTo(S, n - 1)
         IN  shorter \cup {Append(s, x) : s \in {t \in shorter : Len(t) = n - 1}, x \in S}

RECURSIVE lstrip(_)
lstrip(s) == IF s # <<>> /\ Head(s) = " " THEN lstrip(Tail(s)) ELSE s

RECURSIVE rstrip(_)
rstrip(s) == IF s # <<>> /\ s[Len(s)] = " " THEN rstrip(SubSeq(s, 1, Len(s) - 1)) ELSE s

\* only the leading whitespace removed
strip_leading(s) == lstrip(s)

\* str.strip()
strip(s) == lstrip(rstrip(s))

\* self.textbox is a curses.textpad.Textbox (standard library) on a one-line
\* window.  Its do_command, applied to each key in turn: a printable key is
\* inserted at the cursor; a key that is neither printable nor an editing
\* command (ESC, 27) is ignored and editing goes on.
RECURSIVE do_commands(_, _)
do_commands(content, keys) ==
    IF keys = <<>> THEN content
    ELSE do_commands(IF isprint(Head(keys)) THEN Append(content, Head(keys)) ELSE content,
                     Tail(keys))

\* Textbox.gather on the one-line window: nothing for a blank line, otherwise the
\* cells up to and including the one after the last non-blank.
gather(content) ==
    IF rstrip(content) = <<>> THEN <<>> ELSE Append(rstrip(content), " ")

\* self.textbox.edit(): keys typed, then Enter.
TextboxEdit(keys) == gather(do_commands(<<>>, keys))

----------------------------------------------------------------------------
\* The registry and the file

\* list(self.goals.keys())
KeyList(g) == [i \in 1..Len(g) |-> g[i].name]

KeySet(g) == {g[i].name : i \in 1..Len(g)}

\* position of a key in the dict
Pos(g, name) == CHOOSE i \in 1..Len(g) : g[i].name = name

\* self.goals[name]
Lookup(g, name) == g[Pos(g, name)]

\* a list index that raises no IndexError
IndexOk(s, i) == -Len(s) <= i /\ i < Len(s)

\* s[i] with Python's negative indices
PyIndex(s, i) == IF i < 0 THEN s[Len(s) + i + 1] ELSE s[i + 1]

\* the last entry removed whatever the name
DelKey_last(g, name) == SubSeq(g, 1, Len(g) - 1)

\* the entry removed and the last one moved into its place
DelKey_swap(g, name) ==
    [i \in 1..(Len(g) - 1) |-> IF i = Pos(g, name) THEN g[Len(g)] ELSE g[i]]

\* del self.goals[name]
DelKey(g, name) == [i \in 1..(Len(g) - 1) |-> IF i < Pos(g, name) THEN g[i] ELSE g[i + 1]]

\* the record stored under the text as gathered, its trailing blank kept
NewGoal_unstripped(name, t) ==
    [name |-> name \o <<" ">>, counter |-> 0, history |-> <<>>,
     created_at |-> t, last_updated |-> t]

\* the record handle_create_goal inserts
NewGoal(name, t) ==
    [name |-> name, counter |-> 0, history |-> <<>>, created_at |-> t, last_updated |-> t]

\* json.dump({'goals': self.goals}, f)
dump(g) == [kind |-> "object", goals |-> g]

\* what load_data leaves in self.goals for a file it survives
loaded(f) == IF f.kind = "object" THEN f.goals ELSE <<>>

\* A record written by a version that kept no history.
LegacyGoal(name, c) == [name |-> name, counter |-> c, created_at |-> 0, last_updated |-> 0]

SavedGoal(name, c) ==
    [name |-> name, counter |-> c, history |-> [i \in 1..c |-> i - 1],
     created_at |-> 0, last_updated |-> 0]

\* Files the application may find at startup.
InitFiles ==
    { [kind |-> "missing", goals |-> <<>>],
      [kind |-> "corrupt", goals |-> <<>>],
      [kind |-> "nonobject", goals |-> <<>>],
      dump(<<>>),
      dump(<<SavedGoal(<<"a">>, 0)>>),
      dump(<<SavedGoal(<<"a">>, 1)>>),
      dump(<<LegacyGoal(<<"a">>, 1)>>),
      dump(<<SavedGoal(<<"a">>, 0), SavedGoal(<<"a", "a">>, 1)>>) }

----------------------------------------------------------------------------
\* Status

\* a status that no iteration clears
Expired_never == FALSE

\* run(): the check at the top of each iteration
Expired == status_message # NoStatus /\ now - status_time > StatusDuration

\* an iteration whose handler sets no status
KeepStatus ==
    /\ status_message' = IF Expired THEN NoStatus ELSE status_message
    /\ UNCHANGED <<status_time, is_error>>

set_status(message, error) ==
    /\ status_message' = message
    /\ status_time' = now
    /\ is_error' = error

\* save_data(): the write succeeds, or open() raises and the file is as it was,
\* or the write raises after open() truncated the file.
DiskOutcomes == {"ok", "open_fails", "write_fails"}

\* save_data that never reaches the file
save_data_unwritten(g, disk) == UNCHANGED file

save_data(g, disk) ==
    file' = CASE disk = "ok" -> dump(g)
              [] disk = "open_fails" -> file
              [] disk = "write_fails" -> [kind |-> "corrupt", goals |-> <<>>]

\* the outcomes that matter to a key: those of save_data if its branch saves
Disk(saves, D) == IF saves THEN D ELSE {"ok"}

Raise(e) == pc' = "terminated" /\ exc' = e

Return == UNCHANGED <<pc, exc>>

Observe(handler, key, text, branch) ==
    ev' = [handler |-> handler, key |-> key, text |-> text, branch |-> branch]

----------------------------------------------------------------------------
\* __init__ and load_data

Init ==
    \E f \in InitFiles :
        /\ file = f
        /\ goals = loaded(f)
        /\ current_goal = NoGoal
        /\ current_state = IF loaded(f) = <<>> THEN "create_goal" ELSE "menu"
        /\ selected_index = 0
        /\ goal_to_delete = NoGoal
        /\ status_message = NoStatus
        /\ status_time = 0
        /\ is_error = FALSE
        /\ now = 0
        /\ pc = IF f.kind = "nonobject" THEN "terminated" ELSE "running"
        /\ exc = IF f.kind = "nonobject" THEN "AttributeError" ELSE "none"
        /\ ev = [handler |-> "load", key |-> "", text |-> <<>>, branch |-> f.kind]
        /\ seq = [base |-> 0, n |-> 0, m |-> 0]
        /\ applied = [x \in {} |-> 0]

Tick ==
    /\ pc = "running"
    /\ now < MaxTime
    /\ now' = now + 1
    /\ UNCHANGED <<goals, current_goal, current_state, selected_index, goal_to_delete,
                   status_message, status_time, is_error, file, pc, exc, ev, seq, applied>>

----------------------------------------------------------------------------
\* Menu state

max(a, b) == IF a > b THEN a ELSE b

min(a, b) == IF a < b THEN a ELSE b

\* quit() that leaves without saving
quit_nosave(disk) == UNCHANGED file /\ Raise("KeyboardInterrupt")

\* quit() that saves and comes back to the loop
quit_return(disk) == save_data(goals, disk) /\ Return

\* quit(): save_data(), then raise KeyboardInterrupt; a failing save raises first.
quit(disk) ==
    /\ save_data(goals, disk)
    /\ Raise(IF disk = "ok" THEN "KeyboardInterrupt" ELSE "OSError")

\* seq when a goal becomes the viewed one
StartSeq(c) == [base |-> c, n |-> 0, m |-> 0]

handle_menu_input(key, disk) ==
    /\ pc = "running"
    /\ current_state = "menu"
    /\ UNCHANGED <<goals, now, applied>>
    /\ IF key = "NONE" THEN
            /\ KeepStatus /\ Return
            /\ Observe("menu", key, <<>>, "timeout")
            /\ UNCHANGED <<current_goal, current_state, selected_index, goal_to_delete,
                           file, seq>>
       ELSE IF key = "UP" THEN
            /\ selected_index' = max(0, selected_index - 1)
            /\ IF IndexOk(KeyList(goals), selected_index')
               THEN set_status("Selected", FALSE) /\ Return
               ELSE KeepStatus /\ Raise("IndexError")
            /\ Observe("menu", key, <<>>, "up")
            /\ UNCHANGED <<current_goal, current_state, goal_to_delete, file, seq>>
       ELSE IF key = "DOWN" THEN
            /\ selected_index' = min(Len(goals) - 1, selected_index + 1)
            /\ IF goals = <<>> THEN KeepStatus /\ Return
               ELSE IF IndexOk(KeyList(goals), selected_index')
               THEN set_status("Selected", FALSE) /\ Return
               ELSE KeepStatus /\ Raise("IndexError")
            /\ Observe("menu", key, <<>>, "down")
            /\ UNCHANGED <<current_goal, current_state, goal_to_delete, file, seq>>
       ELSE IF key = "ENTER" /\ goals # <<>> THEN
            /\ Observe("menu", key, <<>>, "open")
            /\ UNCHANGED <<selected_index, goal_to_delete, file>>
            /\ IF IndexOk(KeyList(goals), selected_index)
               THEN /\ current_goal' = PyIndex(KeyList(goals), selected_index)
                    /\ current_state' = "view_goal"
                    /\ set_status("Viewing goal", FALSE) /\ Return
                    /\ seq' = StartSeq(PyIndex(goals, selected_index).counter)
               ELSE /\ KeepStatus /\ Raise("IndexError")
                    /\ UNCHANGED <<current_goal, current_state, seq>>
       ELSE IF key = "c" THEN
            /\ current_state' = "create_goal"
            /\ set_status("Creating new goal...", FALSE) /\ Return
            /\ Observe("menu", key, <<>>, "create")
            /\ UNCHANGED <<current_goal, selected_index, goal_to_delete, file, seq>>
       ELSE IF key = "d" /\ goals # <<>> THEN
            /\ Observe("menu", key, <<>>, "delete")
            /\ UNCHANGED <<current_goal, selected_index, file, seq>>
            /\ KeepStatus
            /\ IF IndexOk(KeyList(goals), selected_index)
               THEN /\ goal_to_delete' = PyIndex(KeyList(goals), selected_index)
                    /\ current_state' = "delete_confirm"
                    /\ Return
               ELSE /\ Raise("IndexError")
                    /\ UNCHANGED <<goal_to_delete, current_state>>
       ELSE IF key = "q" THEN
            /\ set_status("Saving and quitting...", FALSE)
            /\ quit(disk)
            /\ Observe("menu", key, <<>>, "quit")
            /\ UNCHANGED <<current_goal, current_state, selected_index, goal_to_delete, seq>>
       ELSE IF key = "?" THEN
            /\ set_status("Remember: each step matters!", FALSE) /\ Return
            /\ Observe("menu", key, <<>>, "help")
            /\ UNCHANGED <<current_goal, current_state, selected_index, goal_to_delete,
                           file, seq>>
       ELSE
            /\ KeepStatus /\ Return
            /\ Observe("menu", key, <<>>, "none")
            /\ UNCHANGED <<current_goal, current_state, selected_index, goal_to_delete,
                           file, seq>>

----------------------------------------------------------------------------
\* Goal view state

\* the record written at the first position of the registry
SetGoal_first(g, name, data) == [g EXCEPT ![1] = data]

\* self.goals with the record under `name` replaced (the handler mutates it in place)
SetGoal(g, name, data) == [g EXCEPT ![Pos(g, name)] = data]

\* data['history'].append(data['counter']); data['counter'] += 1; data['last_updated'] = ...
Incremented(data, t) ==
    [data EXCEPT !.history = Append(data.history, data.counter),
                 !.counter = data.counter + 1,
                 !.last_updated = t]

\* the last entry read but left on the history
Undone_keep(data, t) ==
    [data EXCEPT !.counter = data.history[Len(data.history)],
                 !.last_updated = t]

\* data['counter'] = data['history'].pop(); data['last_updated'] = ...
Undone(data, t) ==
    [data EXCEPT !.counter = data.history[Len(data.history)],
                 !.history = SubSeq(data.history, 1, Len(data.history) - 1),
                 !.last_updated = t]

\* undo offered whatever the history holds
CanUndo_always(data) == TRUE

\* `and data['history']`: a non-empty list is true
CanUndo(data) == data.history # <<>>

\* seq after an increment key: it extends the run, or starts a new one after undos
SeqInc(c) == IF seq.m > 0 THEN [base |-> c, n |-> 1, m |-> 0]
             ELSE [seq EXCEPT !.n = seq.n + 1]

\* seq after an undo key: it counts while undos <= increments, else the run ends
SeqUndo(c) == IF seq.m < seq.n THEN [seq EXCEPT !.m = seq.m + 1] ELSE StartSeq(c)

Bump(name, d) ==
    IF name \in DOMAIN applied THEN [applied EXCEPT ![name] = applied[name] + d]
    ELSE applied

handle_goal_input(key, disk) ==
    /\ pc = "running"
    /\ current_state = "view_goal"
    /\ UNCHANGED <<selected_index, goal_to_delete, now>>
    /\ IF key = "NONE" THEN
            /\ KeepStatus /\ Return
            /\ Observe("goal", key, <<>>, "timeout")
            /\ UNCHANGED <<goals, current_goal, current_state, file, seq, applied>>
       ELSE IF current_goal \notin KeySet(goals) THEN
            /\ KeepStatus /\ Raise("KeyError")
            /\ Observe("goal", key, <<>>, "keyerror")
            /\ UNCHANGED <<goals, current_goal, current_state, file, seq, applied>>
       ELSE LET data == Lookup(goals, current_goal) IN
       IF key = "i" THEN
            /\ data.counter < MaxCount
            /\ Observe("goal", key, <<>>, "increment")
            /\ seq' = SeqInc(data.counter)
            /\ UNCHANGED <<current_goal, current_state>>
            /\ IF "history" \notin DOMAIN data
               THEN /\ KeepStatus /\ Raise("KeyError")
                    /\ UNCHANGED <<goals, file, applied>>
               ELSE /\ goals' = SetGoal(goals, current_goal, Incremented(data, now))
                    /\ applied' = Bump(current_goal, 1)
                    /\ save_data(goals', disk)
                    /\ IF disk = "ok"
                       THEN set_status("Counter increased", FALSE) /\ Return
                       ELSE KeepStatus /\ Raise("OSError")
       ELSE IF key = "u" /\ "history" \notin DOMAIN data THEN
            /\ KeepStatus /\ Raise("KeyError")
            /\ Observe("goal", key, <<>>, "undo")
            /\ seq' = SeqUndo(data.counter)
            /\ UNCHANGED <<goals, current_goal, current_state, file, applied>>
       ELSE IF key = "u" /\ CanUndo(data) THEN
            /\ Observe("goal", key, <<>>, "undo")
            /\ UNCHANGED <<current_goal, current_state>>
            /\ IF data.history = <<>>
               THEN \* list.pop() on an empty list
                    /\ KeepStatus /\ Raise("IndexError")
                    /\ seq' = SeqUndo(data.counter)
                    /\ UNCHANGED <<goals, file, applied>>
               ELSE /\ goals' = SetGoal(goals, current_goal, Undone(data, now))
                    /\ seq' = SeqUndo(Undone(data, now).counter)
                    /\ applied' = Bump(current_goal, -1)
                    /\ save_data(goals', disk)
                    /\ IF disk = "ok"
                       THEN set_status("Counter reset", FALSE) /\ Return
                       ELSE KeepStatus /\ Raise("OSError")
       ELSE IF key = "m" THEN
            /\ current_goal' = NoGoal
            /\ current_state' = "menu"
            /\ set_status("Returned to menu", FALSE) /\ Return
            /\ Observe("goal", key, <<>>, "menu")
            /\ seq' = StartSeq(0)
            /\ UNCHANGED <<goals, file, applied>>
       ELSE IF key = "q" THEN
            /\ set_status("Saving and quitting...", FALSE)
            /\ quit(disk)
            /\ Observe("goal", key, <<>>, "quit")
            /\ UNCHANGED <<goals, current_goal, current_state, seq, applied>>
       ELSE IF key = "?" THEN
            /\ set_status("motivational message", FALSE) /\ Return
            /\ Observe("goal", key, <<>>, "help")
            /\ UNCHANGED <<goals, current_goal, current_state, file, seq, applied>>
       ELSE
            /\ KeepStatus /\ Return
            /\ Observe("goal", key, <<>>, "none")
            /\ seq' = IF key = "u" THEN SeqUndo(data.counter) ELSE seq
            /\ UNCHANGED <<goals, current_goal, current_state, file, applied>>

----------------------------------------------------------------------------
\* Create state

\* the message shown without the error flag
show_error_plain(message) == set_status(message, FALSE)

\* show_error(): set_status(message, error=True), then one getch() whose key is dropped
show_error(message) == set_status(message, TRUE)

\* the test without `or not goal_name`
Cancelled_escape_only(goal_name) ==
    \E i \in 1..Len(goal_name) : goal_name[i] = "ESC"

\* `'\x1b' in goal_name or not goal_name`
Cancelled(goal_name) ==
    (\E i \in 1..Len(goal_name) : goal_name[i] = "ESC") \/ goal_name = <<>>

handle_create_goal(keys, disk) ==
    LET text == TextboxEdit(keys)
        goal_name == strip(text)
    IN
    /\ pc = "running"
    /\ current_state = "create_goal"
    /\ UNCHANGED <<selected_index, goal_to_delete, now>>
    /\ IF Cancelled(goal_name) THEN
            /\ set_status("Goal creation cancelled", FALSE) /\ Return
            /\ current_state' = "menu"
            /\ Observe("create", "ENTER", keys, "cancelled")
            /\ UNCHANGED <<goals, current_goal, file, seq, applied>>
       ELSE IF goal_name \in KeySet(goals) THEN
            /\ show_error("already exists") /\ Return
            /\ Observe("create", "ENTER", keys, "duplicate")
            /\ UNCHANGED <<goals, current_goal, current_state, file, seq, applied>>
       ELSE
            /\ Observe("create", "ENTER", keys, "created")
            /\ goals' = Append(goals, NewGoal(goal_name, now))
            /\ applied' = [x \in DOMAIN applied \cup {goal_name} |->
                              IF x = goal_name THEN 0 ELSE applied[x]]
            /\ save_data(goals', disk)
            /\ IF disk = "ok"
               THEN /\ current_goal' = goal_name
                    /\ current_state' = "view_goal"
                    /\ set_status("created successfully", FALSE) /\ Return
                    /\ seq' = StartSeq(0)
               ELSE /\ KeepStatus /\ Raise("OSError")
                    /\ UNCHANGED <<current_goal, current_state, seq>>

----------------------------------------------------------------------------
\* Delete confirmation state

handle_delete_confirm(key, disk) ==
    /\ pc = "running"
    /\ current_state = "delete_confirm"
    /\ UNCHANGED <<current_goal, goal_to_delete, now, seq>>
    /\ IF key = "y" THEN
            /\ Observe("delete_confirm", key, <<>>, "deleted")
            /\ IF goal_to_delete \notin KeySet(goals)
               THEN /\ KeepStatus /\ Raise("KeyError")
                    /\ UNCHANGED <<goals, file, selected_index, current_state, applied>>
               ELSE /\ goals' = DelKey(goals, goal_to_delete)
                    /\ applied' = [x \in DOMAIN applied \ {goal_to_delete} |-> applied[x]]
                    /\ save_data(goals', disk)
                    /\ IF disk = "ok"
                       THEN /\ selected_index' =
                                   max(0, min(selected_index, Len(goals') - 1))
                            /\ set_status("deleted successfully", FALSE) /\ Return
                            /\ current_state' = "menu"
                       ELSE /\ KeepStatus /\ Raise("OSError")
                            /\ UNCHANGED <<selected_index, current_state>>
       ELSE IF key = "n" THEN
            /\ set_status("Deletion cancelled", FALSE) /\ Return
            /\ current_state' = "menu"
            /\ Observe("delete_confirm", key, <<>>, "cancelled")
            /\ UNCHANGED <<goals, file, selected_index, applied>>
       ELSE
            /\ KeepStatus /\ Return
            /\ current_state' = "menu"
            /\ Observe("delete_confirm", key, <<>>, "none")
            /\ UNCHANGED <<goals, file, selected_index, applied>>

\* One iteration of run() or one tick of the clock; D is what the disk may do
\* to a save.
\* the registry stays within `cap` goals: the submission adds none, or there is room
Fits(keys, cap) ==
    LET goal_name == strip(TextboxEdit(keys))
    IN  Cancelled(goal_name) \/ goal_name \in KeySet(goals) \/ Len(goals) < cap

Step(D) ==
    \/ \E key \in MenuKeys : \E disk \in Disk(key \in {"q"}, D) :
           handle_menu_input(key, disk)
    \/ \E key \in GoalKeys : \E disk \in Disk(key \in {"i", "u", "q"}, D) :
           handle_goal_input(key, disk)
    \/ \E keys \in SeqsUpTo(TextKeys, MaxKeys), disk \in D :
           Fits(keys, MaxGoals) /\ handle_create_goal(keys, disk)
    \/ \E key \in ConfirmKeys : \E disk \in Disk(key \in {"y"}, D) :
           handle_delete_confirm(key, disk)
    \/ Tick

\* Every save succeeds.
Next == Step({"ok"})

Spec == Init /\ [][Next]_vars

\* A save may fail.
NextIO == Step(DiskOutcomes)

SpecIO == Init /\ [][NextIO]_vars

\* The list of goals at length three: no saved file at startup, one-letter names,
\* no counting, every save succeeds, the clock stands still.
ListTexts == {<<>>, <<"a">>, <<"b">>, <<"q">>}

ListGoalKeys == {"NONE", "m", "q"}

InitList == Init /\ file.kind = "missing"

NextList ==
    \/ \E key \in MenuKeys : handle_menu_input(key, "ok")
    \/ \E key \in ListGoalKeys : handle_goal_input(key, "ok")
    \/ \E keys \in ListTexts :
           Fits(keys, MaxListGoals) /\ handle_create_goal(keys, "ok")
    \/ \E key \in ConfirmKeys : handle_delete_confirm(key, "ok")

SpecList == InitList /\ [][NextList]_vars

\* The status line over a clock long enough for a message to expire: at most
\* one goal, no counting, every save succeeds.  The clock advances, and in the
\* polling states getch() returns after its timeout, so the loop iterates.
Advance(cap) ==
    /\ pc = "running"
    /\ now < cap
    /\ now' = now + 1
    /\ UNCHANGED <<goals, current_goal, current_state, selected_index, goal_to_delete,
                   status_message, status_time, is_error, file, pc, exc, ev, seq, applied>>

ClockMenuKeys == {"NONE", "ENTER", "c", "d", "?"}

ClockGoalKeys == {"NONE", "m"}

ClockConfirmKeys == {"NONE", "n"}

ClockTexts == {<<>>, <<"a">>}

InitClock == Init /\ file.kind = "missing"

\* an iteration whose getch() timed out
PollTimeout ==
    \/ handle_menu_input("NONE", "ok")
    \/ handle_goal_input("NONE", "ok")
    \/ handle_delete_confirm("NONE", "ok")

NextClock ==
    \/ \E key \in ClockMenuKeys : handle_menu_input(key, "ok")
    \/ \E key \in ClockGoalKeys : handle_goal_input(key, "ok")
    \/ \E keys \in ClockTexts : Fits(keys, 1) /\ handle_create_goal(keys, "ok")
    \/ \E key \in ClockConfirmKeys : handle_delete_confirm(key, "ok")
    \/ Advance(MaxClock)

SpecClock ==
    /\ InitClock /\ [][NextClock]_vars
    /\ WF_vars(Advance(MaxClock))
    /\ WF_vars(PollTimeout)

----------------------------------------------------------------------------
\* Properties

\* self.goals[self.current_goal]
CurrentData == Lookup(goals, current_goal)

\* C1: in every reachable state in which the registry holds at least one goal,
\* 0 <= selected_index < number of goals.
C1_SelectedIndexInRange ==
    goals # <<>> => (0 <= selected_index /\ selected_index < Len(goals))

\* C2: the loop ends only through the quit key pressed in menu or view_goal; no
\* key press ends the process through an unhandled error.
C2_OnlyQuitEndsLoop ==
    (pc = "terminated" /\ ev.handler # "load") =>
        (exc = "KeyboardInterrupt" /\ ev.key = "q" /\ ev.handler \in {"menu", "goal"})

\* C3: at every loop-iteration boundary the file holds the in-memory registry:
\* what was loaded from it before any mutation, and exactly the dumped registry
\* after a create, increment, undo or delete whose save succeeded.
C3_WriteThrough ==
    pc = "running" =>
        /\ goals = loaded(file)
        /\ ev.branch \in {"created", "increment", "undo", "deleted"} => file = dump(goals)

C3_Witness ==
    /\ pc = "running"
    /\ ev.branch = "undo"
    /\ Len(goals) = 2
    /\ file = dump(goals)
    /\ file \notin InitFiles

\* the step just taken is handle_goal_input reading `key` in view_goal
GoalStep(key) ==
    /\ pc = "running"
    /\ current_state = "view_goal"
    /\ now' = now
    /\ ev'.handler = "goal"
    /\ ev'.key = key

\* the step just taken is handle_create_goal
CreateStep ==
    /\ pc = "running"
    /\ current_state = "create_goal"
    /\ now' = now
    /\ ev'.handler = "create"

\* C4: in view_goal, after n increment keys followed by m <= n undo keys the
\* viewed goal's counter is its counter before the sequence plus (n - m), and
\* the counter is never negative.
C4_IncrementUndoArithmetic ==
    /\ \A i \in 1..Len(goals) : goals[i].counter >= 0
    /\ (ev.handler = "goal" /\ current_goal \in KeySet(goals)) =>
           CurrentData.counter = seq.base + seq.n - seq.m

\* C5: the undo key in view_goal on a goal whose history is empty changes
\* neither that goal (counter, history, last_updated), nor the rest of the
\* registry, nor the file, nor current_state.
C5_UndoEmptyIsNoOp ==
    [][(/\ GoalStep("u")
        /\ current_goal \in KeySet(goals)
        /\ "history" \in DOMAIN CurrentData
        /\ CurrentData.history = <<>>)
       => (/\ goals' = goals
           /\ file' = file
           /\ current_state' = current_state
           /\ pc' = "running")]_vars

C5_Witness ==
    /\ pc = "running"
    /\ current_state = "view_goal"
    /\ ev.handler = "goal" /\ ev.key = "u" /\ ev.branch = "none"
    /\ CurrentData.history = <<>>

\* C6: for every goal created in the application, the length of its history
\* is the number of increments applied to it and not undone; increment appends
\* the pre-increment counter as the last entry, undo removes exactly the last
\* entry and sets the counter to it.
C6_HistoryTracksIncrements ==
    /\ [](\A name \in DOMAIN applied :
             /\ name \in KeySet(goals)
             /\ Len(Lookup(goals, name).history) = applied[name])
    /\ [][(GoalStep("i") /\ current_goal \in DOMAIN applied) =>
             /\ Lookup(goals', current_goal).history =
                    Append(CurrentData.history, CurrentData.counter)
             /\ Lookup(goals', current_goal).counter = CurrentData.counter + 1]_vars
    /\ [][(GoalStep("u") /\ current_goal \in DOMAIN applied
                         /\ CurrentData.history # <<>>) =>
             /\ Append(Lookup(goals', current_goal).history,
                       Lookup(goals', current_goal).counter) = CurrentData.history]_vars

C6_Witness ==
    /\ ev.handler = "goal" /\ ev.branch = "undo"
    /\ current_goal \in DOMAIN applied
    /\ applied[current_goal] = 1
    /\ CurrentData.history = <<0>>
    /\ CurrentData.counter = 1

\* the name handle_create_goal derives from the keys observed in ev'
TypedName == strip(TextboxEdit(ev'.text))

\* C7: submitting a name that after trimming equals an existing goal name
\* leaves registry and file unchanged, records an error status and stays in
\* create_goal.
C7_DuplicateNameRejected ==
    [][(CreateStep /\ TypedName \in KeySet(goals)) =>
          /\ goals' = goals
          /\ file' = file
          /\ status_message' # NoStatus
          /\ is_error'
          /\ status_time' = now
          /\ current_state' = "create_goal"]_vars

C7_Witness ==
    /\ ev.handler = "create" /\ ev.branch = "duplicate"
    /\ strip(TextboxEdit(ev.text)) \in KeySet(goals)
    /\ current_state = "create_goal"
    /\ is_error

\* C8: submitting an empty or whitespace-only name leaves registry and file
\* unchanged and sets current_state to menu.
C8_EmptyNameCancels ==
    [][(CreateStep /\ \A i \in 1..Len(ev'.text) : ev'.text[i] = " ") =>
          /\ goals' = goals
          /\ file' = file
          /\ current_state' = "menu"]_vars

C8_Witness ==
    /\ ev.handler = "create"
    /\ ev.text = <<" ", " ">>
    /\ current_state = "menu"
    /\ goals # <<>>

\* C9: submitting a name whose trimmed form is non-empty and not present adds
\* exactly one goal, under the trimmed name, with counter 0 and empty history,
\* leaves the existing goals unchanged, persists the registry, and makes the
\* new goal current in view_goal.
C9_CreateAddsOneGoal ==
    [][(/\ CreateStep
        /\ \E i \in 1..Len(ev'.text) : ev'.text[i] # " "
        /\ \A i \in 1..Len(ev'.text) : ev'.text[i] # "ESC"
        /\ strip(ev'.text) \notin KeySet(goals))
       => (/\ Len(goals') = Len(goals) + 1
           /\ SubSeq(goals', 1, Len(goals)) = goals
           /\ goals'[Len(goals')].name = strip(ev'.text)
           /\ goals'[Len(goals')].counter = 0
           /\ goals'[Len(goals')].history = <<>>
           /\ file' = dump(goals')
           /\ current_goal' = strip(ev'.text)
           /\ current_state' = "view_goal")]_vars

C9_Witness ==
    /\ ev.handler = "create" /\ ev.branch = "created"
    /\ ev.text = <<" ", "a">>
    /\ Len(goals) = 2
    /\ current_goal = <<"a">>
    /\ current_state = "view_goal"

\* C10: escape pressed during text entry, whatever was typed before it, ends
\* the create flow in menu with no goal added.
C10_EscapeCancels ==
    [][(CreateStep /\ \E i \in 1..Len(ev'.text) : ev'.text[i] = "ESC") =>
          /\ current_state' = "menu"
          /\ goals' = goals]_vars

\* the step just taken is handle_menu_input reading `key`
MenuStep(key) ==
    /\ pc = "running"
    /\ current_state = "menu"
    /\ now' = now
    /\ ev'.handler = "menu"
    /\ ev'.key = key

\* the step just taken is handle_delete_confirm reading `key`
ConfirmStep(key) ==
    /\ pc = "running"
    /\ current_state = "delete_confirm"
    /\ now' = now
    /\ ev'.handler = "delete_confirm"
    /\ ev'.key = key

\* the goal the menu keys act on: list(self.goals.keys())[self.selected_index]
SelectedName ==
    KeyList(goals)[IF selected_index >= 0 THEN selected_index + 1
                   ELSE Len(goals) + selected_index + 1]

\* the registry without the goal awaiting confirmation, order kept
WithoutTarget ==
    LET keep(g) == g.name # goal_to_delete IN SelectSeq(goals, keep)

\* C11: a goal leaves the registry only through the yes-key in delete_confirm,
\* and it is the goal that was selected when the delete-key was pressed in the
\* menu; the no-key returns to menu with registry and file unchanged; after
\* the yes-key the state is menu and the deletion is on file.
C11_DeleteOnlyOnYes ==
    [][/\ (KeySet(goals) \ KeySet(goals') # {}) => ConfirmStep("y")
       /\ (MenuStep("d") /\ goals # <<>>) =>
              /\ goal_to_delete' = SelectedName
              /\ current_state' = "delete_confirm"
              /\ goals' = goals /\ file' = file
       /\ (pc = "running" /\ current_state = "delete_confirm") =>
              goal_to_delete' = goal_to_delete
       /\ ConfirmStep("y") =>
              /\ goal_to_delete \in KeySet(goals)
              /\ goals' = WithoutTarget
              /\ Len(goals') = Len(goals) - 1
              /\ file' = dump(goals')
              /\ current_state' = "menu"
       /\ ConfirmStep("n") =>
              /\ goals' = goals /\ file' = file
              /\ current_state' = "menu"]_vars

C11_Witness ==
    /\ ev.handler = "delete_confirm" /\ ev.key = "y"
    /\ KeyList(goals) = << <<"a">>, <<"q">> >>
    /\ goal_to_delete = <<"b">>
    /\ file = dump(goals)
    /\ current_state = "menu"

\* C12: deleting the selected goal when it is the last of the list leaves
\* selected_index = max(0, count - 1), count the number of goals left.
C12_DeleteLastClampsIndex ==
    [][(/\ ConfirmStep("y")
        /\ goal_to_delete = SelectedName
        /\ goal_to_delete = goals[Len(goals)].name)
       => selected_index' = (IF Len(goals') - 1 > 0 THEN Len(goals') - 1 ELSE 0)]_vars

\* C13: goals are listed, and indexed by selected_index, in creation order: a
\* created goal goes last, a deletion keeps the order of the others, and no
\* other step changes the list of names.
C13_ListingOrderIsCreationOrder ==
    [][/\ (KeyList(goals') # KeyList(goals)) =>
              \/ CreateStep /\ KeyList(goals') = Append(KeyList(goals), TypedName)
              \/ ConfirmStep("y") /\ goals' = WithoutTarget
       /\ (MenuStep("ENTER") /\ selected_index \in 0..(Len(goals) - 1)) =>
              current_goal' = KeyList(goals)[selected_index + 1]]_vars

C13_Witness ==
    /\ ev.handler = "create" /\ ev.branch = "created"
    /\ KeyList(goals) = << <<"q">>, <<"b">>, <<"a">> >>
    /\ goal_to_delete = <<"a">>

\* C14: loading at startup never ends the process: with the file missing,
\* unparseable, or parseable but not a goals object, the registry starts empty
\* and the application runs.
C14_LoadNeverTerminates ==
    ev.handler = "load" =>
        /\ pc = "running"
        /\ file.kind # "object" => goals = <<>> /\ current_state = "create_goal"

\* C15: a goal loaded without a history field behaves as one with an empty
\* history: increment pushes the old counter and adds 1, undo changes nothing,
\* and neither raises.
C15_MissingHistoryIsEmpty ==
    [][\A key \in {"i", "u"} :
          (GoalStep(key) /\ "history" \notin DOMAIN CurrentData) =>
              /\ pc' = "running"
              /\ key = "i" =>
                     /\ CurrentData'.counter = CurrentData.counter + 1
                     /\ CurrentData'.history = <<CurrentData.counter>>
              /\ key = "u" => goals' = goals /\ file' = file]_vars

\* C16: when the save of a create, increment, undo or delete fails, the
\* process keeps running with the mutation in the registry and an error
\* status is set.
C16_SaveFailureIsReported ==
    [][(/\ pc = "running"
        /\ now' = now
        /\ goals' # goals
        /\ file' # dump(goals'))
       => /\ pc' = "running"
          /\ is_error'
          /\ status_message' # NoStatus]_vars

\* C17: the quit key in menu or view_goal saves the whole registry before the
\* loop ends: when the process has exited through quit, the file holds the
\* registry.
C17_QuitSavesRegistry ==
    (pc = "terminated" /\ exc = "KeyboardInterrupt") =>
        /\ ev.key = "q"
        /\ ev.handler \in {"menu", "goal"}
        /\ file = dump(goals)

C17_Witness ==
    /\ pc = "terminated" /\ exc = "KeyboardInterrupt"
    /\ ev.handler = "menu" /\ ev.key = "q"
    /\ goals = <<>>
    /\ file = dump(<<>>)

\* the text typed in the create flow holds the quit key
TypedQuit == \E i \in DOMAIN ev'.text : ev'.text[i] = "q"

\* the file holds the registry and the loop has ended through quit()
SavedAndExited ==
    /\ pc' = "terminated" /\ exc' = "KeyboardInterrupt"
    /\ goals' = goals
    /\ file' = dump(goals)

\* C18 as stated: the quit key pressed in any of menu, view_goal, create_goal
\* and delete_confirm leads directly to the final save and the exit.
C18_QuitKeyExitsEverywhere ==
    [][(MenuStep("q") \/ GoalStep("q") \/ ConfirmStep("q") \/ (CreateStep /\ TypedQuit))
       => SavedAndExited]_vars

\* C18 amended: the quit key leads directly to the final save and the exit in
\* menu and view_goal; in delete_confirm it dismisses the dialog (back to menu,
\* nothing deleted, nothing saved); in create_goal it is a character of the
\* name and the process keeps running.
C18_QuitKeyByState ==
    [][/\ (MenuStep("q") \/ GoalStep("q")) => SavedAndExited
       /\ ConfirmStep("q") =>
              /\ pc' = "running"
              /\ current_state' = "menu"
              /\ goals' = goals /\ file' = file
       /\ (CreateStep /\ TypedQuit) =>
              /\ pc' = "running"
              /\ TypedName \in KeySet(goals')]_vars

C18_Witness ==
    /\ pc = "running"
    /\ ev.handler = "delete_confirm" /\ ev.key = "q"
    /\ current_state = "menu"
    /\ goal_to_delete \in KeySet(goals)
    /\ <<"q">> \in KeySet(goals)

\* C19: in the menu the up key at the first position and the down key at the
\* last position leave selected_index unchanged, and with an empty registry
\* both leave it at 0.
C19_NavigationClamped ==
    [][/\ (MenuStep("UP") /\ goals # <<>> /\ selected_index = 0) =>
              selected_index' = 0
       /\ (MenuStep("DOWN") /\ goals # <<>> /\ selected_index = Len(goals) - 1) =>
              selected_index' = selected_index
       /\ ((MenuStep("UP") \/ MenuStep("DOWN")) /\ goals = <<>>) =>
              pc' = "running" /\ selected_index' = 0]_vars

\* C20: a poll that times out is a no-op in menu, view_goal and
\* delete_confirm: current_state, current_goal, goal_to_delete,
\* selected_index, the registry and the file are unchanged.
C20_TimeoutIsNoOp ==
    [][(MenuStep("NONE") \/ GoalStep("NONE") \/ ConfirmStep("NONE")) =>
          UNCHANGED <<current_state, current_goal, goal_to_delete, selected_index,
                      goals, file>>]_vars

\* the loop is not iterating: the process has ended, or it waits in the textbox
LoopBlocked == pc = "terminated" \/ current_state = "create_goal"

\* C21: the loop clears a status message only once more than StatusDuration
\* has elapsed since it was set, and a message set at time t and not replaced
\* is eventually cleared wherever the loop keeps iterating.
C21_StatusExpires ==
    /\ [][(status_message # NoStatus /\ status_message' = NoStatus)
            => now - status_time > StatusDuration]_vars
    /\ \A t \in 0..(MaxClock - StatusDuration - 1) :
           (status_message # NoStatus /\ status_time = t)
              ~> (status_message = NoStatus \/ status_time # t \/ LoopBlocked)

C21_Witness ==
    /\ status_message = NoStatus
    /\ status_time >= 1
    /\ now - status_time > StatusDuration
    /\ ev.key = "NONE"
    /\ pc = "running"

\* C22: while the loop runs, the goal name the active state refers to is a
\* key of the registry: current_goal in view_goal, goal_to_delete in
\* delete_confirm.
C22_ActiveGoalExists ==
    pc = "running" =>
        /\ current_state = "view_goal" => current_goal \in KeySet(goals)
        /\ current_state = "delete_confirm" => goal_to_delete \in KeySet(goals)

C22_Witness ==
    /\ pc = "running"
    /\ current_state = "view_goal"
    /\ current_goal \in KeySet(goals)
    /\ goal_to_delete # NoGoal
    /\ goal_to_delete \notin KeySet(goals)

\* draw_menu: the names of the rows drawn highlighted
Highlighted ==
    {KeyList(goals)[idx + 1] : idx \in {i \in 0..(Len(goals) - 1) : i = selected_index}}

\* C23: with at least one goal in the menu, the goal the enter key opens and
\* the goal the delete key targets is the goal draw_menu highlights.
C23_ActsOnHighlighted ==
    [][/\ (MenuStep("ENTER") /\ goals # <<>>) =>
              /\ current_state' = "view_goal"
              /\ Highlighted = {current_goal'}
       /\ (MenuStep("d") /\ goals # <<>>) =>
              /\ current_state' = "delete_confirm"
              /\ Highlighted = {goal_to_delete'}]_vars

\* C24: increment and undo in view_goal change only the record of
\* current_goal (names, order and every other record stay), and the menu keys
\* up, down, enter and help change neither the registry nor the file.
C24_FrameOfCountingAndMenuKeys ==
    [][/\ \A key \in {"i", "u"} :
              GoalStep(key) =>
                  /\ KeyList(goals') = KeyList(goals)
                  /\ \A i \in 1..Len(goals) :
                         goals[i].name # current_goal => goals'[i] = goals[i]
       /\ \A key \in {"UP", "DOWN", "ENTER", "?"} :
              MenuStep(key) => goals' = goals /\ file' = file]_vars

C24_Witness ==
    /\ ev.handler = "goal" /\ ev.branch = "increment"
    /\ current_goal = <<"a", "a">>
    /\ Len(goals) = 2
    /\ goals[1].name = <<"a">> /\ goals[1].counter = 0 /\ goals[1].history = <<>>
    /\ goals[2].counter = 2 /\ goals[2].history = <<0, 1>>

====
